---- MODULE Spec2Model ----
(***************************************************************************)
(* scripts/plot-spectrogram.py: one run of main().                        *)
(*                                                                         *)
(* Text is a sequence of one-character strings, so that strip(), split(), *)
(* int() and float() are computed rather than assumed.  A float is held   *)
(* in fixed point, as an integer count of thousandths.                    *)
(***************************************************************************)
EXTENDS Integers, Sequences, FiniteSets, TLC

VARIABLES
    mpl_installed,  \* whether `import matplotlib.pyplot` succeeds
    file_exists,    \* whether args.csvfile names a readable file
    file,           \* the file's lines, each a sequence of characters
    output,         \* args.output: <<>> is None, <<s>> is the string s
    pc,             \* position in main()
    header, lines,  \* line 33, line 34
    freqs,          \* line 38
    timestamps, rssi_data, idx,     \* lines 41-48 (idx: the loop's position)
    rssi_matrix, matrix_ok,         \* line 55
    t_start, time_sec,              \* lines 60-61
    figure,         \* the image handed to imshow, lines 68-83
    log,            \* what the run did to the outside, in order
    exit_code,      \* the process's exit status, -1 while running
    fault           \* the uncaught exception that ended the run, or "none"

vars == <<mpl_installed, file_exists, file, output, pc, header, lines, freqs,
          timestamps, rssi_data, idx, rssi_matrix, matrix_ok, t_start,
          time_sec, figure, log, exit_code, fault>>

----------------------------------------------------------------------------
(* Bounds of the model. *)

MaxLines == 3       \* data lines in the file, after the header

----------------------------------------------------------------------------
(* Text: str.strip(), str.split(','), int(), float(). *)

Whitespace == {" ", "\n"}
Digits == {"0", "1", "2", "3", "4", "5", "6", "7", "8", "9"}

DigitVal(c) ==
    CASE c = "0" -> 0 [] c = "1" -> 1 [] c = "2" -> 2 [] c = "3" -> 3
      [] c = "4" -> 4 [] c = "5" -> 5 [] c = "6" -> 6 [] c = "7" -> 7
      [] c = "8" -> 8 [] c = "9" -> 9

RECURSIVE LStrip(_)
LStrip(s) ==
    IF s # <<>> /\ Head(s) \in Whitespace THEN LStrip(Tail(s)) ELSE s

RECURSIVE RStrip(_)
RStrip(s) ==
    IF s # <<>> /\ s[Len(s)] \in Whitespace
    THEN RStrip(SubSeq(s, 1, Len(s) - 1))
    ELSE s

Strip(s) == RStrip(LStrip(s))

RECURSIVE Split(_)
Split(s) ==
    IF s = <<>> THEN << <<>> >>
    ELSE IF Head(s) = "," THEN << <<>> >> \o Split(Tail(s))
    ELSE LET r == Split(Tail(s))
         IN  << <<Head(s)>> \o Head(r) >> \o Tail(r)

IsDigits(s) == s # <<>> /\ \A i \in 1..Len(s) : s[i] \in Digits

RECURSIVE DigitsVal(_)
DigitsVal(s) ==
    IF s = <<>> THEN 0
    ELSE 10 * DigitsVal(SubSeq(s, 1, Len(s) - 1)) + DigitVal(s[Len(s)])

\* The sign and the unsigned rest of a stripped numeric literal.
Sign(t) == IF t # <<>> /\ Head(t) = "-" THEN -1 ELSE 1
Unsigned(t) == IF t # <<>> /\ Head(t) \in {"-", "+"} THEN Tail(t) ELSE t

\* int(s): optional whitespace, optional sign, decimal digits.
IsInt(s) == IsDigits(Unsigned(Strip(s)))
IntVal(s) == Sign(Strip(s)) * DigitsVal(Unsigned(Strip(s)))

\* Position of the first "." of u, or 0.
DotPos(u) ==
    IF \E i \in 1..Len(u) : u[i] = "."
    THEN CHOOSE i \in 1..Len(u) :
            u[i] = "." /\ \A j \in 1..(i - 1) : u[j] # "."
    ELSE 0

IntPart(u) == IF DotPos(u) = 0 THEN u ELSE SubSeq(u, 1, DotPos(u) - 1)
FracPart(u) == IF DotPos(u) = 0 THEN <<>> ELSE SubSeq(u, DotPos(u) + 1, Len(u))

\* float(s): optional whitespace, optional sign, digits with an optional
\* fraction ("12", "12.5", "12.", ".5").
IsFloat(s) ==
    LET u == Unsigned(Strip(s))
    IN  /\ IntPart(u) = <<>> \/ IsDigits(IntPart(u))
        /\ FracPart(u) = <<>> \/ IsDigits(FracPart(u))
        /\ IntPart(u) # <<>> \/ FracPart(u) # <<>>

Scale == 1000       \* fixed point: a float x is held as x * Scale

\* The first three fraction digits, as thousandths.
Thousandths(f) ==
    DigitsVal(SubSeq(f \o <<"0", "0", "0">>, 1, 3))

FloatVal(s) ==
    LET u == Unsigned(Strip(s))
    IN  Sign(Strip(s)) * (DigitsVal(IntPart(u)) * Scale + Thousandths(FracPart(u)))

\* [float(x) for x in fields]
AllFloat(fields) == \A i \in 1..Len(fields) : IsFloat(fields[i])
Floats(fields) == [i \in 1..Len(fields) |-> FloatVal(fields[i])]

\* "%.3f" of a float: thousandths, exactly.
Fmt3(x) == x
\* "%.2f" of a float: the nearest hundredth.
Fmt2(x) == IF x % 10 >= 5 THEN (x \div 10) + 1 ELSE x \div 10

\* n / d for an integer n and the float literal d: true division.
TrueDiv(n, d) == (n * Scale) \div d

MsPerSecond == 1000

\* Slips of line 45: `< 1`, and a line that does not parse taken for a
\* line to skip.
TooShort_LessThanOne(parts) == Len(parts) < 1
TooShort_OrUnparsable(parts) ==
    \/ Len(parts) < 2
    \/ ~IsInt(parts[1])
    \/ ~AllFloat(Tail(parts))

\* Line 45: len(parts) < 2.
TooShort(parts) == Len(parts) < 2

\* A slip of line 48: parts[2:].
Readings_FromSecond(parts) == Floats(Tail(Tail(parts)))

\* Line 48: [float(x) for x in parts[1:]], once every field is known to parse.
Readings(parts) == Floats(Tail(parts))

\* A slip of line 60: t_start = timestamps[-1].
RelativeTime_FromLast(ts) ==
    [i \in 1..Len(ts) |-> TrueDiv(ts[i] - ts[Len(ts)], MsPerSecond)]

\* Lines 60-61: (timestamps - timestamps[0]) / 1000.0
RelativeTime(ts) ==
    [i \in 1..Len(ts) |-> TrueDiv(ts[i] - ts[1], MsPerSecond)]

----------------------------------------------------------------------------
(* The inputs of a run: the CSV file's text and the command line. *)

RECURSIVE Join(_)
Join(fields) ==
    IF Len(fields) = 1 THEN fields[1]
    ELSE fields[1] \o <<",">> \o Join(Tail(fields))

Line(fields) == Join(fields) \o <<"\n">>

HeaderLines ==
    { Line(<< <<"t">>, <<"1", ".", "0">>, <<"2", ".", "0">> >>),
      Line(<< <<"t">>, <<"3", ".", "0">>, <<"1", ".", "0">>, <<"2", ".", "0">> >>),
      Line(<< <<"0">>, <<"1", ".", "0">>, <<"2", ".", "5">> >>),
      Line(<< <<"t">> >>),
      Line(<< <<"t">>, <<"1", ".", "0">>, <<"x">> >>) }

DataLines ==
    { Line(<< <<"1", "0", "0", "0">>, <<"-", "5", "0">>, <<"-", "6", "0">> >>),
      Line(<< <<"2", "5", "0", "0">>, <<"-", "5", "5", ".", "5">>, <<"-", "6", "5">> >>),
      Line(<< <<" ", "2", "0", " ">>, <<" ", "-", "7", "0">>, <<"-", "3", "0">> >>),
      Line(<< <<"3", "0", "0", "0">>, <<"-", "4", "0">> >>),
      Line(<< <<>> >>),
      Line(<< <<"7">> >>),
      Line(<< <<"x">> >>),
      Line(<< <<"1", "0", "0", "0">>, <<"x">>, <<"-", "6", "0">> >>),
      Line(<< <<"1", ".", "5">>, <<"-", "5", "0">>, <<"-", "6", "0">> >>) }

LineSeqs == UNION { [1..n -> DataLines] : n \in 0..MaxLines }

\* An empty file, or a header line followed by up to MaxLines data lines.
Files == { <<>> } \cup { <<h>> \o ls : h \in HeaderLines, ls \in LineSeqs }

\* -o absent, -o '' and -o out.png
Outputs == { <<>>, <<"">>, <<"out.png">> }

\* The defaults of --cmap, --vmin and --vmax.
DefaultCmap == "viridis"
DefaultVmin == -80
DefaultVmax == -30

----------------------------------------------------------------------------
(* The run. *)

Entry(ch, what, text, nums) ==
    [ch |-> ch, what |-> what, text |-> text, nums |-> nums]

\* An uncaught exception: the traceback goes to standard error and the
\* interpreter exits with status 1.
Fault(e) ==
    /\ log' = Append(log, Entry("stderr", "Traceback", e, <<>>))
    /\ fault' = e
    /\ exit_code' = 1
    /\ pc' = "done"

\* A slip of line 85: `if args.output is not None:`.
Truthy_NotNone(o) == o # <<>>

\* The truth value of args.output in `if args.output:`.
Truthy(o) == o # <<>> /\ o[1] # ""

Ragged(rows) ==
    \E i, j \in 1..Len(rows) : Len(rows[i]) # Len(rows[j])

Init ==
    /\ mpl_installed \in BOOLEAN
    /\ file_exists \in BOOLEAN
    /\ file \in (IF file_exists THEN Files ELSE { <<>> })
    /\ output \in Outputs
    /\ pc = "import"
    /\ header = <<>>
    /\ lines = <<>>
    /\ freqs = <<>>
    /\ timestamps = <<>>
    /\ rssi_data = <<>>
    /\ idx = 0
    /\ rssi_matrix = <<>>
    /\ matrix_ok = TRUE
    /\ t_start = 0
    /\ time_sec = <<>>
    /\ figure = <<>>
    /\ log = <<>>
    /\ exit_code = -1
    /\ fault = "none"

\* A slip of lines 24-28: the ImportError is swallowed and the run goes on.
ImportMatplotlib_Swallowed ==
    /\ pc = "import"
    /\ pc' = "reading"
    /\ UNCHANGED <<mpl_installed, file_exists, file, output, header, lines,
                   freqs, timestamps, rssi_data, idx, rssi_matrix, matrix_ok,
                   t_start, time_sec, figure, log, exit_code, fault>>

\* A slip of line 28: sys.exit(0).
ImportMatplotlib_ExitZero ==
    /\ pc = "import"
    /\ IF mpl_installed
       THEN /\ pc' = "reading"
            /\ UNCHANGED <<log, exit_code>>
       ELSE /\ log' = Append(log, Entry("stderr", "Error: matplotlib not installed", "", <<>>))
            /\ exit_code' = 0
            /\ pc' = "done"
    /\ UNCHANGED <<mpl_installed, file_exists, file, output, header, lines,
                   freqs, timestamps, rssi_data, idx, rssi_matrix, matrix_ok,
                   t_start, time_sec, figure, fault>>

\* Lines 24-28.
ImportMatplotlib ==
    /\ pc = "import"
    /\ IF mpl_installed
       THEN /\ pc' = "reading"
            /\ UNCHANGED <<log, exit_code>>
       ELSE /\ log' = Append(log, Entry("stderr", "Error: matplotlib not installed", "", <<>>))
            /\ exit_code' = 1
            /\ pc' = "done"
    /\ UNCHANGED <<mpl_installed, file_exists, file, output, header, lines,
                   freqs, timestamps, rssi_data, idx, rssi_matrix, matrix_ok,
                   t_start, time_sec, figure, fault>>

\* Line 31.
PrintReading ==
    /\ pc = "reading"
    /\ log' = Append(log, Entry("stdout", "Reading", "csvfile", <<>>))
    /\ pc' = "open"
    /\ UNCHANGED <<mpl_installed, file_exists, file, output, header, lines,
                   freqs, timestamps, rssi_data, idx, rssi_matrix, matrix_ok,
                   t_start, time_sec, figure, exit_code, fault>>

\* Lines 32-34: open(), readline().strip(), readlines().
OpenAndRead ==
    /\ pc = "open"
    /\ IF file_exists
       THEN /\ log' = Append(log, Entry("fs", "open", "csvfile", <<>>))
            /\ header' = (IF file = <<>> THEN <<>> ELSE Strip(Head(file)))
            /\ lines' = (IF file = <<>> THEN <<>> ELSE Tail(file))
            /\ pc' = "parse_header"
            /\ UNCHANGED <<exit_code, fault>>
       ELSE /\ Fault("FileNotFoundError")
            /\ UNCHANGED <<header, lines>>
    /\ UNCHANGED <<mpl_installed, file_exists, file, output, freqs, timestamps,
                   rssi_data, idx, rssi_matrix, matrix_ok, t_start, time_sec,
                   figure>>

\* Lines 37-38.
ParseHeader ==
    /\ pc = "parse_header"
    /\ LET cols == Split(header)
       IN  IF AllFloat(Tail(cols))
           THEN /\ freqs' = Floats(Tail(cols))
                /\ idx' = 1
                /\ pc' = "parse_rows"
                /\ UNCHANGED <<log, exit_code, fault>>
           ELSE /\ Fault("ValueError")
                /\ UNCHANGED <<freqs, idx>>
    /\ UNCHANGED <<mpl_installed, file_exists, file, output, header, lines,
                   timestamps, rssi_data, rssi_matrix, matrix_ok, t_start,
                   time_sec, figure>>

\* Lines 43-48: one iteration of the loop over lines.
ParseRow ==
    /\ pc = "parse_rows"
    /\ idx <= Len(lines)
    /\ LET parts == Split(Strip(lines[idx]))
       IN  IF TooShort(parts)
           THEN /\ idx' = idx + 1
                /\ UNCHANGED <<timestamps, rssi_data, pc, log, exit_code, fault>>
           ELSE IF ~IsInt(parts[1])
           THEN /\ Fault("ValueError")
                /\ UNCHANGED <<timestamps, rssi_data, idx>>
           ELSE IF ~AllFloat(Tail(parts))
           THEN /\ timestamps' = Append(timestamps, IntVal(parts[1]))
                /\ Fault("ValueError")
                /\ UNCHANGED <<rssi_data, idx>>
           ELSE /\ timestamps' = Append(timestamps, IntVal(parts[1]))
                /\ rssi_data' = Append(rssi_data, Readings(parts))
                /\ idx' = idx + 1
                /\ UNCHANGED <<pc, log, exit_code, fault>>
    /\ UNCHANGED <<mpl_installed, file_exists, file, output, header, lines,
                   freqs, rssi_matrix, matrix_ok, t_start, time_sec, figure>>

\* A slip of line 52: sys.exit(0).
CheckEmpty_ExitZero ==
    /\ pc = "parse_rows"
    /\ idx > Len(lines)
    /\ IF rssi_data = <<>>
       THEN /\ log' = Append(log, Entry("stderr", "Error: No data rows found in CSV", "", <<>>))
            /\ exit_code' = 0
            /\ pc' = "done"
       ELSE /\ pc' = "convert"
            /\ UNCHANGED <<log, exit_code>>
    /\ UNCHANGED <<mpl_installed, file_exists, file, output, header, lines,
                   freqs, timestamps, rssi_data, idx, rssi_matrix, matrix_ok,
                   t_start, time_sec, figure, fault>>

\* A slip of the order of lines 50-63: the "Loaded" line printed before the
\* check for an empty dataset.
CheckEmpty_AfterLoaded ==
    /\ pc = "parse_rows"
    /\ idx > Len(lines)
    /\ LET loaded == Entry("stdout", "Loaded", "", <<Len(timestamps), Len(freqs)>>)
       IN  IF rssi_data = <<>>
           THEN /\ log' = Append(Append(log, loaded),
                                 Entry("stderr", "Error: No data rows found in CSV", "", <<>>))
                /\ exit_code' = 1
                /\ pc' = "done"
           ELSE /\ pc' = "convert"
                /\ UNCHANGED <<log, exit_code>>
    /\ UNCHANGED <<mpl_installed, file_exists, file, output, header, lines,
                   freqs, timestamps, rssi_data, idx, rssi_matrix, matrix_ok,
                   t_start, time_sec, figure, fault>>

\* Lines 50-52, reached when the loop has run out of lines.
CheckEmpty ==
    /\ pc = "parse_rows"
    /\ idx > Len(lines)
    /\ IF rssi_data = <<>>
       THEN /\ log' = Append(log, Entry("stderr", "Error: No data rows found in CSV", "", <<>>))
            /\ exit_code' = 1
            /\ pc' = "done"
       ELSE /\ pc' = "convert"
            /\ UNCHANGED <<log, exit_code>>
    /\ UNCHANGED <<mpl_installed, file_exists, file, output, header, lines,
                   freqs, timestamps, rssi_data, idx, rssi_matrix, matrix_ok,
                   t_start, time_sec, figure, fault>>

\* Lines 55-61.  np.array() of rows of unequal length raises ValueError in
\* a numpy that refuses ragged input, and otherwise yields an array of
\* row objects that is no image.
Convert ==
    /\ pc = "convert"
    /\ \E strict \in BOOLEAN :
        IF Ragged(rssi_data) /\ strict
        THEN /\ Fault("ValueError")
             /\ UNCHANGED <<rssi_matrix, matrix_ok, t_start, time_sec>>
        ELSE /\ rssi_matrix' = rssi_data
             /\ matrix_ok' = ~Ragged(rssi_data)
             /\ t_start' = timestamps[1]
             /\ time_sec' = RelativeTime(timestamps)
             /\ pc' = "info_loaded"
             /\ UNCHANGED <<log, exit_code, fault>>
    /\ UNCHANGED <<mpl_installed, file_exists, file, output, header, lines,
                   freqs, timestamps, rssi_data, idx, figure>>

\* Line 63.
PrintLoaded ==
    /\ pc = "info_loaded"
    /\ log' = Append(log, Entry("stdout", "Loaded", "", <<Len(timestamps), Len(freqs)>>))
    /\ pc' = "info_range"
    /\ UNCHANGED <<mpl_installed, file_exists, file, output, header, lines,
                   freqs, timestamps, rssi_data, idx, rssi_matrix, matrix_ok,
                   t_start, time_sec, figure, exit_code, fault>>

\* Line 64.
PrintFreqRange ==
    /\ pc = "info_range"
    /\ IF freqs = <<>>
       THEN Fault("IndexError")
       ELSE /\ log' = Append(log, Entry("stdout", "Frequency range", "",
                                        <<Fmt3(freqs[1]), Fmt3(freqs[Len(freqs)])>>))
            /\ pc' = "info_duration"
            /\ UNCHANGED <<exit_code, fault>>
    /\ UNCHANGED <<mpl_installed, file_exists, file, output, header, lines,
                   freqs, timestamps, rssi_data, idx, rssi_matrix, matrix_ok,
                   t_start, time_sec, figure>>

\* Line 65.
PrintDuration ==
    /\ pc = "info_duration"
    /\ log' = Append(log, Entry("stdout", "Duration", "", <<Fmt2(time_sec[Len(time_sec)])>>))
    /\ pc' = "render"
    /\ UNCHANGED <<mpl_installed, file_exists, file, output, header, lines,
                   freqs, timestamps, rssi_data, idx, rssi_matrix, matrix_ok,
                   t_start, time_sec, figure, exit_code, fault>>

\* Lines 68-83.
Render ==
    /\ pc = "render"
    /\ IF matrix_ok
       THEN /\ figure' = << [data |-> rssi_matrix,
                             extent |-> <<freqs[1], freqs[Len(freqs)],
                                          time_sec[Len(time_sec)], time_sec[1]>>,
                             cmap |-> DefaultCmap,
                             vmin |-> DefaultVmin,
                             vmax |-> DefaultVmax] >>
            /\ pc' = "output"
            /\ UNCHANGED <<log, exit_code, fault>>
       ELSE /\ Fault("TypeError")
            /\ UNCHANGED figure
    /\ UNCHANGED <<mpl_installed, file_exists, file, output, header, lines,
                   freqs, timestamps, rssi_data, idx, rssi_matrix, matrix_ok,
                   t_start, time_sec>>

\* Lines 85-86.
SaveFig ==
    /\ pc = "output"
    /\ Truthy(output)
    /\ log' = Append(log, Entry("fs", "savefig", output[1], <<>>))
    /\ pc' = "confirm"
    /\ UNCHANGED <<mpl_installed, file_exists, file, output, header, lines,
                   freqs, timestamps, rssi_data, idx, rssi_matrix, matrix_ok,
                   t_start, time_sec, figure, exit_code, fault>>

\* Line 87, then main() returns.
PrintSaved ==
    /\ pc = "confirm"
    /\ log' = Append(log, Entry("stdout", "Saved to", output[1], <<>>))
    /\ exit_code' = 0
    /\ pc' = "done"
    /\ UNCHANGED <<mpl_installed, file_exists, file, output, header, lines,
                   freqs, timestamps, rssi_data, idx, rssi_matrix, matrix_ok,
                   t_start, time_sec, figure, fault>>

\* Lines 88-89: plt.show() opens the window and blocks.
Show ==
    /\ pc = "output"
    /\ ~Truthy(output)
    /\ log' = Append(log, Entry("gui", "show", "", <<>>))
    /\ pc' = "showing"
    /\ UNCHANGED <<mpl_installed, file_exists, file, output, header, lines,
                   freqs, timestamps, rssi_data, idx, rssi_matrix, matrix_ok,
                   t_start, time_sec, figure, exit_code, fault>>

\* The user closes the window: plt.show() returns, then main() returns.
CloseWindow ==
    /\ pc = "showing"
    /\ exit_code' = 0
    /\ pc' = "done"
    /\ UNCHANGED <<mpl_installed, file_exists, file, output, header, lines,
                   freqs, timestamps, rssi_data, idx, rssi_matrix, matrix_ok,
                   t_start, time_sec, figure, log, fault>>

Next ==
    \/ ImportMatplotlib
    \/ PrintReading
    \/ OpenAndRead
    \/ ParseHeader
    \/ ParseRow
    \/ CheckEmpty
    \/ Convert
    \/ PrintLoaded
    \/ PrintFreqRange
    \/ PrintDuration
    \/ Render
    \/ SaveFig
    \/ PrintSaved
    \/ Show
    \/ CloseWindow

Spec == Init /\ [][Next]_vars

----------------------------------------------------------------------------
(* What the properties below speak about, stated on the file's text and   *)
(* on the log rather than on the run's own variables.                     *)

Did(ch, what) == \E i \in 1..Len(log) : log[i].ch = ch /\ log[i].what = what
Count(ch, what) ==
    Cardinality({ i \in 1..Len(log) : log[i].ch = ch /\ log[i].what = what })

ImageWritten == Did("fs", "savefig")
DisplayOpened == Did("gui", "show")
FileOpened == Did("fs", "open")
ReportedMissingDependency == Did("stderr", "Error: matplotlib not installed")
ReportedNoData == Did("stderr", "Error: No data rows found in CSV")
InfoLines == { "Loaded", "Frequency range", "Duration" }
AnyInfoLine == \E w \in InfoLines : Did("stdout", w)

\* The number of comma-separated fields of a line: one more than its commas.
NumFields(l) == 1 + Cardinality({ i \in 1..Len(l) : l[i] = "," })
IsShortLine(l) == NumFields(l) < 2
IsLongLine(l) == ~IsShortLine(l)

FileHeader == IF file = <<>> THEN <<>> ELSE Head(file)
FileData == IF file = <<>> THEN <<>> ELSE Tail(file)
\* The data lines that are not skipped, in file order.
KeptLines(ls) == SelectSeq(ls, IsLongLine)

Field(l, k) == Split(Strip(l))[k]
HeaderParses ==
    \A k \in 2..NumFields(FileHeader) : IsFloat(Field(FileHeader, k))
RowParses(l) ==
    /\ IsInt(Field(l, 1))
    /\ \A k \in 2..NumFields(l) : IsFloat(Field(l, k))
\* Some field of a line that is not skipped is no number at all.
RowHasNonNumber(l) ==
    IsLongLine(l) /\ \E k \in 1..NumFields(l) : ~IsFloat(Field(l, k))

\* The loop over the data lines has run to its end.
LoopDone == idx > Len(lines)
\* Lines 55-61 have run.
Converted == pc = "info_loaded" \/ Did("stdout", "Loaded")

SeqMin(q) == CHOOSE x \in { q[i] : i \in 1..Len(q) } : \A j \in 1..Len(q) : x <= q[j]
SeqMax(q) == CHOOSE x \in { q[i] : i \in 1..Len(q) } : \A j \in 1..Len(q) : x >= q[j]

----------------------------------------------------------------------------
(* C1: when matplotlib is missing, the run reports it on standard error   *)
(* and exits with status 1 without ever opening the CSV file: no open, no *)
(* read and no FileNotFoundError, whether or not the path exists.         *)
C1_DependencyCheckedBeforeFile ==
    ~mpl_installed =>
        /\ ~FileOpened
        /\ \A i \in 1..Len(log) : log[i].ch # "fs"
        /\ fault = "none"
        /\ header = <<>> /\ lines = <<>>
        /\ pc \in {"import", "done"}
        /\ pc = "done" =>
            /\ exit_code = 1
            /\ log = << Entry("stderr", "Error: matplotlib not installed", "", <<>>) >>

C1_Witness ==
    /\ ~mpl_installed
    /\ ~file_exists
    /\ pc = "done"
    /\ exit_code = 1

(* C2: when no data row is parsed (empty file, header only, or only short *)
(* lines after the header), the run ends with status 1 and an error on    *)
(* standard error, and neither writes an image nor opens the display; the *)
(* error is the "No data rows" message whenever the header parses.        *)
C2_EmptyDatasetExits ==
    (file_exists /\ mpl_installed /\ \A i \in 1..Len(FileData) : IsShortLine(FileData[i])) =>
        /\ ~ImageWritten
        /\ ~DisplayOpened
        /\ figure = <<>>
        /\ pc = "done" =>
            /\ exit_code = 1
            /\ log[Len(log)].ch = "stderr"
            /\ HeaderParses =>
                /\ fault = "none"
                /\ log[Len(log)] = Entry("stderr", "Error: No data rows found in CSV", "", <<>>)

C2_Witness ==
    /\ pc = "done"
    /\ mpl_installed
    /\ Len(FileData) >= 2
    /\ \A i \in 1..Len(FileData) : IsShortLine(FileData[i])
    /\ ReportedNoData
    /\ exit_code = 1

(* C3: once the final step has acted, exactly one of the two outputs has  *)
(* happened: with an output path, one savefig to that path, then the      *)
(* confirmation line, and no display; with no output path (None, or the   *)
(* empty string, which names no path), one display and never a file.      *)
C3_SaveOrShow ==
    LET given == output # <<>> /\ output # <<"">>
    IN  /\ ~given => ~ImageWritten /\ ~Did("stdout", "Saved to")
        /\ given => ~DisplayOpened
        /\ (figure # <<>> /\ pc # "output") =>
            IF given
            THEN /\ Count("fs", "savefig") = 1
                 /\ \A i \in 1..Len(log) :
                        log[i].what = "savefig" => log[i].text = output[1]
                 /\ pc = "done" =>
                        /\ Count("stdout", "Saved to") = 1
                        /\ log[Len(log)] = Entry("stdout", "Saved to", output[1], <<>>)
            ELSE /\ Count("gui", "show") = 1

C3_Witness ==
    /\ pc = "done"
    /\ output = <<"out.png">>
    /\ ImageWritten
    /\ Did("stdout", "Saved to")

C5_ShortLinesSkipped ==
    /\ (pc = "parse_rows" \/ LoopDone) =>
        LET kept == KeptLines(SubSeq(lines, 1, idx - 1))
        IN  /\ Len(timestamps) = Len(kept)
            /\ Len(rssi_data) = Len(kept)
            /\ \A i \in 1..Len(kept) :
                /\ timestamps[i] = IntVal(Field(kept[i], 1))
                /\ Len(rssi_data[i]) = NumFields(kept[i]) - 1
                /\ \A k \in 1..Len(rssi_data[i]) :
                        rssi_data[i][k] = FloatVal(Field(kept[i], k + 1))
    /\ pc = "parse_rows" => Len(log) = 2 /\ fault = "none"
    /\ (pc = "done" /\ idx \in 1..Len(lines)) =>
        /\ fault = "ValueError"
        /\ IsLongLine(lines[idx])

C5_Witness ==
    /\ LoopDone
    /\ Len(lines) = 3
    /\ IsLongLine(lines[1]) /\ IsShortLine(lines[2]) /\ IsLongLine(lines[3])
    /\ Len(rssi_data) = 2

(* C6: for a well-formed CSV the frequency axis is header fields 1..N in  *)
(* header order, row i of the matrix is fields 1..N of the i-th data line *)
(* and timestamp i is its field 0: nothing reordered, dropped, repeated.  *)
WellFormed ==
    /\ file # <<>>
    /\ HeaderParses
    /\ \A i \in 1..Len(FileData) :
        /\ IsLongLine(FileData[i])
        /\ RowParses(FileData[i])
        /\ NumFields(FileData[i]) = NumFields(FileHeader)

ExampleFile ==
    << Line(<< <<"t">>, <<"1", ".", "0">>, <<"2", ".", "0">> >>),
       Line(<< <<"1", "0", "0", "0">>, <<"-", "5", "0">>, <<"-", "6", "0">> >>),
       Line(<< <<"2", "5", "0", "0">>, <<"-", "5", "5", ".", "5">>, <<"-", "6", "5">> >>) >>

C6_ParseKeepsOrder ==
    (WellFormed /\ LoopDone) =>
        /\ Len(freqs) = NumFields(FileHeader) - 1
        /\ \A k \in 1..Len(freqs) : freqs[k] = FloatVal(Field(FileHeader, k + 1))
        /\ Len(timestamps) = Len(FileData)
        /\ Len(rssi_data) = Len(FileData)
        /\ \A i \in 1..Len(FileData) :
            /\ timestamps[i] = IntVal(Field(FileData[i], 1))
            /\ Len(rssi_data[i]) = Len(freqs)
            /\ \A k \in 1..Len(freqs) :
                    rssi_data[i][k] = FloatVal(Field(FileData[i], k + 1))
        /\ Converted => rssi_matrix = rssi_data
        /\ file = ExampleFile =>
            /\ freqs = <<1000, 2000>>
            /\ timestamps = <<1000, 2500>>
            /\ rssi_data = << <<-50000, -60000>>, <<-55500, -65000>> >>

C6_Witness ==
    /\ WellFormed
    /\ LoopDone
    /\ Len(FileData) >= 2
    /\ FileData[1] # FileData[2]
    /\ Converted

(* C7: the time axis has one entry per parsed row, entry i being          *)
(* (timestamp_i - timestamp_0) / 1000 with timestamp_0 the first parsed   *)
(* row's timestamp; so the first entry is 0.0 whatever that timestamp is. *)
C7_RelativeTime ==
    Converted =>
        LET kept == KeptLines(FileData)
            T(i) == IntVal(Field(kept[i], 1))
        IN  /\ Len(kept) > 0
            /\ Len(time_sec) = Len(kept)
            /\ time_sec[1] = 0
            /\ t_start = T(1)
            /\ \A i \in 1..Len(kept) :
                    time_sec[i] * MsPerSecond = (T(i) - T(1)) * Scale

C7_Witness ==
    /\ Converted
    /\ Len(time_sec) >= 3
    /\ timestamps[1] # 0
    /\ time_sec[2] > 0
    /\ time_sec[3] < 0

(* C8: the frequency-range line reports the minimum and the maximum of    *)
(* the parsed frequencies, for every header.                              *)
C8_RangeIsMinMax ==
    \A i \in 1..Len(log) :
        log[i].what = "Frequency range" =>
            log[i].nums = <<Fmt3(SeqMin(freqs)), Fmt3(SeqMax(freqs))>>

(* C9: in a run that reads the file, a frequency field or a field of a    *)
(* line that is not skipped that is no number ends the run by an uncaught *)
(* ValueError with a nonzero status; nothing is rendered, written or      *)
(* displayed, however many valid rows come before or after.               *)
C9_MalformedFieldFaults ==
    (mpl_installed /\ (~HeaderParses \/ \E i \in 1..Len(FileData) : RowHasNonNumber(FileData[i]))) =>
        /\ ~ImageWritten
        /\ ~DisplayOpened
        /\ figure = <<>>
        /\ ~AnyInfoLine
        /\ ~Converted
        /\ pc = "done" =>
            /\ fault = "ValueError"
            /\ exit_code # 0
            /\ log[Len(log)] = Entry("stderr", "Traceback", "ValueError", <<>>)

C9_Witness ==
    /\ pc = "done"
    /\ fault = "ValueError"
    /\ Len(lines) = 3
    /\ RowParses(lines[1]) /\ IsLongLine(lines[1])
    /\ RowHasNonNumber(lines[2])
    /\ RowParses(lines[3]) /\ IsLongLine(lines[3])
    /\ Len(rssi_data) = 1

(* C10: the events of a run come in one fixed order: dependency check,    *)
(* "Reading", open and read, parse, empty-dataset check, the three        *)
(* informational lines, render, then save and confirmation or display.    *)
(* No informational line is printed on a run that leaves through an error *)
(* check, and the confirmation follows the write of the image.            *)
Rank(e) ==
    CASE e.what = "Reading" -> 1
      [] e.what = "open" -> 2
      [] e.what = "Loaded" -> 3
      [] e.what = "Frequency range" -> 4
      [] e.what = "Duration" -> 5
      [] e.what = "savefig" -> 6
      [] e.what = "show" -> 6
      [] e.what = "Saved to" -> 7
      [] OTHER -> 8

C10_EventOrder ==
    /\ \A i, j \in 1..Len(log) : i < j => Rank(log[i]) < Rank(log[j])
    /\ \A i \in 1..Len(log) : log[i].ch = "stderr" => i = Len(log) /\ pc = "done"
    /\ pc = "import" => log = <<>>
    /\ log # <<>> => \/ log[1] = Entry("stdout", "Reading", "csvfile", <<>>) /\ mpl_installed
                     \/ log[1].ch = "stderr" /\ ~mpl_installed
    /\ (idx > 0 \/ freqs # <<>> \/ timestamps # <<>>) => FileOpened
    /\ FileOpened => lines = FileData
    /\ (ReportedNoData \/ Converted) => LoopDone
    /\ Converted => rssi_data # <<>>
    /\ AnyInfoLine => Did("stdout", "Loaded") /\ Converted
    /\ Did("stdout", "Duration") => Did("stdout", "Frequency range")
    /\ figure # <<>> => Count("stdout", "Loaded") = 1
                        /\ Count("stdout", "Frequency range") = 1
                        /\ Count("stdout", "Duration") = 1
    /\ (ImageWritten \/ DisplayOpened) => figure # <<>>
    /\ (ReportedMissingDependency \/ ReportedNoData) => ~AnyInfoLine
    /\ Did("stdout", "Saved to") => ImageWritten

C10_Witness ==
    /\ pc = "done"
    /\ Len(log) = 7
    /\ log[6].what = "savefig"
    /\ log[7].what = "Saved to"

====
